---- MODULE Spec2Model ----
(***************************************************************************)
(* Model of the cargo-trace eBPF probe (src/cargo-trace/probe/src/main.rs) *)
(* and of the hash map wrapper it uses (src/bpf-helpers/src/map.rs).       *)
(*                                                                         *)
(* The probe samples (rip, rsp), unwinds the user stack with the rule      *)
(* tables PC / RSP / RIP (backtrace, binary_search, execute_instruction)   *)
(* and counts the resulting 48-slot trace in USER_STACK                    *)
(* (increment_stack_counter).                                              *)
(*                                                                         *)
(* Arithmetic: the probe is a BPF program, built without overflow checks,  *)
(* so +, - and += on u32 / u64 / i64 wrap.  TLC's integers are 32 bit, so  *)
(* the widths of u32 and u64 are scaled to U32Bits and U64Bits; both stay  *)
(* larger than MAX_BIN_SEARCH_DEPTH, as 32 is in the source.               *)
(***************************************************************************)
EXTENDS Integers, Sequences, FiniteSets, TLC

VARIABLES
    CONFIG,      \* Array<u32>, 2 entries: [0] populated count, [1] target pid
    PC,          \* Array<u64>: start address of each rule's range
    RIP,         \* Array<Instruction>: return-address rule per index
    RSP,         \* Array<Instruction>: frame-base (cfa) rule per index
    mem,         \* user memory as seen by bpf_probe_read: address -> u64, partial
    USER_STACK,  \* HashMap<[u64; 48], u32>: the entries for the traces of the model
    others,      \* number of USER_STACK entries whose keys are other traces
    pc,          \* per execution context: position in increment_stack_counter
    event,       \* the last sample event delivered: its cpu and the current pid
    stack,       \* per execution context: the local trace buffer
    count,       \* per execution context: the local variable count
    search,      \* a binary_search call in progress (loop state)
    walk,        \* a backtrace call in progress (loop state)
    ex,          \* an execute_instruction call: inputs and result
    calls,       \* history: trace -> number of completed record calls
    log,         \* history: the traces recorded, in completion order
    overlap      \* history: TRUE once two executions were in flight together

vars == <<CONFIG, PC, RIP, RSP, mem, USER_STACK, others, pc, event, stack, count,
          search, walk, ex, calls, log, overlap>>

tables == <<CONFIG, PC, RIP, RSP, mem>>
\* the maps and the memory the probe reads, as one value
Maps == [CONFIG |-> CONFIG, PC |-> PC, RIP |-> RIP, RSP |-> RSP, mem |-> mem]
aggVars == <<USER_STACK, others, pc, event, stack, count, calls, log, overlap>>

----------------------------------------------------------------------------
\* Program constants
MAX_STACK_DEPTH == 48
MAX_BIN_SEARCH_DEPTH == 24
USER_STACK_MAX_ENTRIES == 1024

\* Scaled integer widths
U32Bits == 28
U64Bits == 29
U32Mod == 2 ^ U32Bits
U64Mod == 2 ^ U64Bits
U32_MAX == U32Mod - 1
U64_MAX == U64Mod - 1

\* Bounds of the enumerated inputs
MaxN == 3          \* populated entries of the rule table
MaxAddr == 4       \* addresses of the table and of the queries are 0..MaxAddr, and U64_MAX
NumCpus == 2       \* execution contexts that run the probe concurrently
MaxSamples == 3    \* samples that pass the pid filter in one behaviour

----------------------------------------------------------------------------
\* Option<T>: None is the empty tuple, Some(v) the 1-tuple
None == <<>>
Some(v) == <<v>>
unwrap_or(o, d) == IF o = None THEN d ELSE o[1]
unwrap_or_default(o) == unwrap_or(o, 0)

\* Array<T>::get(index): the entry, or None where the array has none
ArrayGet(arr, i) == IF i \in DOMAIN arr THEN Some(arr[i]) ELSE None

\* HashMap::get(key): bpf_map_lookup_elem, None for a null pointer
HashMapGet(m, key) == IF key \in DOMAIN m THEN Some(m[key]) ELSE None

\* the mutant never replaces the value of a key that is present (BPF_NOEXIST)
HashMapInsertNoExist(m, rest, key, value) ==
    IF key \in DOMAIN m THEN m
    ELSE IF Cardinality(DOMAIN m) + rest < USER_STACK_MAX_ENTRIES
    THEN [k \in DOMAIN m \cup {key} |-> IF k = key THEN value ELSE m[k]]
    ELSE m

\* the mutant makes room in a full map by dropping an entry of another key
HashMapInsertEvict(m, rest, key, value) ==
    IF key \in DOMAIN m THEN [m EXCEPT ![key] = value]
    ELSE IF Cardinality(DOMAIN m) + rest < USER_STACK_MAX_ENTRIES
    THEN [k \in DOMAIN m \cup {key} |-> IF k = key THEN value ELSE m[k]]
    ELSE [k \in {key} |-> value]

\* HashMap::insert(key, value): bpf_map_update_elem with BPF_ANY, its result
\* dropped.  m holds the entries of the map for the keys of the model, rest is
\* the number of its other entries; a new key does not go into a full map.
HashMapInsert(m, rest, key, value) ==
    IF key \in DOMAIN m THEN [m EXCEPT ![key] = value]
    ELSE IF Cardinality(DOMAIN m) + rest < USER_STACK_MAX_ENTRIES
    THEN [k \in DOMAIN m \cup {key} |-> IF k = key THEN value ELSE m[k]]
    ELSE m

\* u32 / u64 / i64 arithmetic without overflow checks
WrapU32(x) == x % U32Mod
WrapU64(x) == x % U64Mod
AsI64(x) == IF x >= U64Mod \div 2 THEN x - U64Mod ELSE x
WrapI64(x) == ((x + U64Mod \div 2) % U64Mod) - U64Mod \div 2
AsU64(x) == x % U64Mod

----------------------------------------------------------------------------
\* binary_search: the loop state before the first iteration
BSInit(T) == [left |-> 0,
              right |-> WrapU32(unwrap_or(ArrayGet(T.CONFIG, 0), 1) - 1),
              i |-> 0, n |-> 0, brk |-> FALSE]

\* the mutant moves the bounds past the midpoint, as a textbook search does
BSStepPastMid(T, s, rip) ==
    IF s.left > s.right THEN [s EXCEPT !.brk = TRUE]
    ELSE LET i == WrapU32(s.left + s.right) \div 2
             p == unwrap_or(ArrayGet(T.PC, i), U64_MAX)
         IN IF p < rip
            THEN [s EXCEPT !.i = i, !.left = WrapU32(i + 1), !.n = @ + 1]
            ELSE [s EXCEPT !.i = i, !.right = WrapU32(i - 1), !.n = @ + 1]

\* one iteration of the loop of binary_search
BSStep(T, s, rip) ==
    IF s.left > s.right THEN [s EXCEPT !.brk = TRUE]
    ELSE LET i == WrapU32(s.left + s.right) \div 2
             p == unwrap_or(ArrayGet(T.PC, i), U64_MAX)
         IN IF p < rip
            THEN [s EXCEPT !.i = i, !.left = i, !.n = @ + 1]
            ELSE [s EXCEPT !.i = i, !.right = i, !.n = @ + 1]

BSDone(s) == s.brk \/ s.n = MAX_BIN_SEARCH_DEPTH

RECURSIVE BSRun(_, _, _)
BSRun(T, s, rip) == IF BSDone(s) THEN s ELSE BSRun(T, BSStep(T, s, rip), rip)

binary_search(T, rip) == BSRun(T, BSInit(T), rip).i

----------------------------------------------------------------------------
\* the mutant takes opcode 3 relative to cfa instead of rsp
execute_instruction_cfa(T, ins, rip, rsp, cfa) ==
    CASE ins.op = 1 ->
           LET unsafe_ptr == AsU64(WrapI64(AsI64(cfa) + ins.offset))
           IN IF unsafe_ptr \in DOMAIN T.mem THEN Some(T.mem[unsafe_ptr]) ELSE None
      [] ins.op = 2 -> Some(AsU64(WrapI64(AsI64(rip) + ins.offset)))
      [] ins.op = 3 -> Some(AsU64(WrapI64(AsI64(cfa) + ins.offset)))
      [] OTHER -> None

\* execute_instruction: Some(value) or None
execute_instruction(T, ins, rip, rsp, cfa) ==
    CASE ins.op = 1 ->
           LET unsafe_ptr == AsU64(WrapI64(AsI64(cfa) + ins.offset))
           IN IF unsafe_ptr \in DOMAIN T.mem THEN Some(T.mem[unsafe_ptr]) ELSE None
      [] ins.op = 2 -> Some(AsU64(WrapI64(AsI64(rip) + ins.offset)))
      [] ins.op = 3 -> Some(AsU64(WrapI64(AsI64(rsp) + ins.offset)))
      [] OTHER -> None

----------------------------------------------------------------------------
\* backtrace: the loop state on entry (stack is the zeroed buffer of the caller)
\* slot d of the buffer is element d + 1 of the tuple
Slots == 0 .. MAX_STACK_DEPTH - 1
\* the mutant is a buffer that was not zeroed
DirtyStack == [k \in 1 .. MAX_STACK_DEPTH |-> 1]
ZeroStack == [k \in 1 .. MAX_STACK_DEPTH |-> 0]
Slot(st, d) == st[d + 1]

WalkStart(rip, rsp) ==
    [rip |-> rip, rsp |-> rsp, d |-> 0, stack |-> ZeroStack, why |-> "run",
     rip0 |-> rip, rsp0 |-> rsp, probes |-> 0, lookups |-> 0]

\* the mutant leaves out the break on rip == 0
WalkStepNoZeroBreak(T, w) ==
    LET w1 == [w EXCEPT !.stack[w.d + 1] = w.rip]
        i == binary_search(T, w.rip)
        w2 == [w1 EXCEPT !.probes = BSRun(T, BSInit(T), w.rip).n, !.lookups = @ + 1]
        rspIns == ArrayGet(T.RSP, i)
        cfa == execute_instruction(T, rspIns[1], w.rip, w.rsp, 0)
        ripIns == ArrayGet(T.RIP, i)
    IN IF rspIns = None THEN [w2 EXCEPT !.why = "no_rsp_rule"]
       ELSE IF cfa = None THEN [w2 EXCEPT !.why = "cfa_failed"]
       ELSE IF ripIns = None THEN [w2 EXCEPT !.why = "no_rip_rule"]
       ELSE [w2 EXCEPT
               !.rip = unwrap_or_default(
                           execute_instruction(T, ripIns[1], w.rip, w.rsp, cfa[1])),
               !.rsp = cfa[1],
               !.d = w.d + 1,
               !.why = IF w.d + 1 = MAX_STACK_DEPTH THEN "depth" ELSE "run"]

\* the mutant has no bound on the depth: the loop goes on after slot 47
WalkStepUnbounded(T, w) ==
    LET w1 == [w EXCEPT !.stack[w.d + 1] = w.rip]
        i == binary_search(T, w.rip)
        w2 == [w1 EXCEPT !.probes = BSRun(T, BSInit(T), w.rip).n, !.lookups = @ + 1]
        rspIns == ArrayGet(T.RSP, i)
        cfa == execute_instruction(T, rspIns[1], w.rip, w.rsp, 0)
        ripIns == ArrayGet(T.RIP, i)
    IN IF w.rip = 0 THEN [w1 EXCEPT !.why = "ip0"]
       ELSE IF rspIns = None THEN [w2 EXCEPT !.why = "no_rsp_rule"]
       ELSE IF cfa = None THEN [w2 EXCEPT !.why = "cfa_failed"]
       ELSE IF ripIns = None THEN [w2 EXCEPT !.why = "no_rip_rule"]
       ELSE [w2 EXCEPT
               !.rip = unwrap_or_default(
                           execute_instruction(T, ripIns[1], w.rip, w.rsp, cfa[1])),
               !.rsp = cfa[1],
               !.d = w.d + 1]

\* the mutant keeps the old rip when the return-address rule gives no value
WalkStepKeepIp(T, w) ==
    LET w1 == [w EXCEPT !.stack[w.d + 1] = w.rip]
        i == binary_search(T, w.rip)
        w2 == [w1 EXCEPT !.probes = BSRun(T, BSInit(T), w.rip).n, !.lookups = @ + 1]
        rspIns == ArrayGet(T.RSP, i)
        cfa == execute_instruction(T, rspIns[1], w.rip, w.rsp, 0)
        ripIns == ArrayGet(T.RIP, i)
    IN IF w.rip = 0 THEN [w1 EXCEPT !.why = "ip0"]
       ELSE IF rspIns = None THEN [w2 EXCEPT !.why = "no_rsp_rule"]
       ELSE IF cfa = None THEN [w2 EXCEPT !.why = "cfa_failed"]
       ELSE IF ripIns = None THEN [w2 EXCEPT !.why = "no_rip_rule"]
       ELSE [w2 EXCEPT
               !.rip = unwrap_or(
                           execute_instruction(T, ripIns[1], w.rip, w.rsp, cfa[1]),
                           w.rip),
               !.rsp = cfa[1],
               !.d = w.d + 1,
               !.why = IF w.d + 1 = MAX_STACK_DEPTH THEN "depth" ELSE "run"]

\* the mutant breaks when the return-address rule gives no value
WalkStepBreakOnFail(T, w) ==
    LET w1 == [w EXCEPT !.stack[w.d + 1] = w.rip]
        i == binary_search(T, w.rip)
        w2 == [w1 EXCEPT !.probes = BSRun(T, BSInit(T), w.rip).n, !.lookups = @ + 1]
        rspIns == ArrayGet(T.RSP, i)
        cfa == execute_instruction(T, rspIns[1], w.rip, w.rsp, 0)
        ripIns == ArrayGet(T.RIP, i)
        new == execute_instruction(T, ripIns[1], w.rip, w.rsp, cfa[1])
    IN IF w.rip = 0 THEN [w1 EXCEPT !.why = "ip0"]
       ELSE IF rspIns = None THEN [w2 EXCEPT !.why = "no_rsp_rule"]
       ELSE IF cfa = None THEN [w2 EXCEPT !.why = "cfa_failed"]
       ELSE IF ripIns = None THEN [w2 EXCEPT !.why = "no_rip_rule"]
       ELSE IF new = None THEN [w2 EXCEPT !.why = "no_rip_rule"]
       ELSE [w2 EXCEPT
               !.rip = new[1],
               !.rsp = cfa[1],
               !.d = w.d + 1,
               !.why = IF w.d + 1 = MAX_STACK_DEPTH THEN "depth" ELSE "run"]

\* the mutant gives up the slot of the frame whose frame-base step fails
WalkStepMissClears(T, w) ==
    LET w1 == [w EXCEPT !.stack[w.d + 1] = w.rip]
        i == binary_search(T, w.rip)
        w2 == [w1 EXCEPT !.probes = BSRun(T, BSInit(T), w.rip).n, !.lookups = @ + 1]
        rspIns == ArrayGet(T.RSP, i)
        cfa == execute_instruction(T, rspIns[1], w.rip, w.rsp, 0)
        ripIns == ArrayGet(T.RIP, i)
    IN IF w.rip = 0 THEN [w1 EXCEPT !.why = "ip0"]
       ELSE IF rspIns = None
       THEN [w2 EXCEPT !.stack[w.d + 1] = 0, !.why = "no_rsp_rule"]
       ELSE IF cfa = None
       THEN [w2 EXCEPT !.stack[w.d + 1] = 0, !.why = "cfa_failed"]
       ELSE IF ripIns = None THEN [w2 EXCEPT !.why = "no_rip_rule"]
       ELSE [w2 EXCEPT
               !.rip = unwrap_or_default(
                           execute_instruction(T, ripIns[1], w.rip, w.rsp, cfa[1])),
               !.rsp = cfa[1],
               !.d = w.d + 1,
               !.why = IF w.d + 1 = MAX_STACK_DEPTH THEN "depth" ELSE "run"]

\* the mutant moves rsp to the new frame base before it evaluates the
\* return-address rule
WalkStepSpFirst(T, w) ==
    LET w1 == [w EXCEPT !.stack[w.d + 1] = w.rip]
        i == binary_search(T, w.rip)
        w2 == [w1 EXCEPT !.probes = BSRun(T, BSInit(T), w.rip).n, !.lookups = @ + 1]
        rspIns == ArrayGet(T.RSP, i)
        cfa == execute_instruction(T, rspIns[1], w.rip, w.rsp, 0)
        ripIns == ArrayGet(T.RIP, i)
    IN IF w.rip = 0 THEN [w1 EXCEPT !.why = "ip0"]
       ELSE IF rspIns = None THEN [w2 EXCEPT !.why = "no_rsp_rule"]
       ELSE IF cfa = None THEN [w2 EXCEPT !.why = "cfa_failed"]
       ELSE IF ripIns = None THEN [w2 EXCEPT !.why = "no_rip_rule"]
       ELSE [w2 EXCEPT
               !.rip = unwrap_or_default(
                           execute_instruction(T, ripIns[1], w.rip, cfa[1], cfa[1])),
               !.rsp = cfa[1],
               !.d = w.d + 1,
               !.why = IF w.d + 1 = MAX_STACK_DEPTH THEN "depth" ELSE "run"]

\* one iteration of the loop of backtrace, for d = w.d; why tells how the loop
\* went on: "run" (next iteration), or the break taken, or "depth" (d reached 48)
WalkStep(T, w) ==
    LET w1 == [w EXCEPT !.stack[w.d + 1] = w.rip]
        i == binary_search(T, w.rip)
        w2 == [w1 EXCEPT !.probes = BSRun(T, BSInit(T), w.rip).n, !.lookups = @ + 1]
        rspIns == ArrayGet(T.RSP, i)
        cfa == execute_instruction(T, rspIns[1], w.rip, w.rsp, 0)
        ripIns == ArrayGet(T.RIP, i)
    IN IF w.rip = 0 THEN [w1 EXCEPT !.why = "ip0"]
       ELSE IF rspIns = None THEN [w2 EXCEPT !.why = "no_rsp_rule"]
       ELSE IF cfa = None THEN [w2 EXCEPT !.why = "cfa_failed"]
       ELSE IF ripIns = None THEN [w2 EXCEPT !.why = "no_rip_rule"]
       ELSE [w2 EXCEPT
               !.rip = unwrap_or_default(
                           execute_instruction(T, ripIns[1], w.rip, w.rsp, cfa[1])),
               !.rsp = cfa[1],
               !.d = w.d + 1,
               !.why = IF w.d + 1 = MAX_STACK_DEPTH THEN "depth" ELSE "run"]

WalkDone(w) == w.why # "run"

RECURSIVE WalkRun(_, _)
WalkRun(T, w) == IF WalkDone(w) THEN w ELSE WalkRun(T, WalkStep(T, w))

\* backtrace(regs, &mut stack): the contents of stack on return
backtrace(T, rip, rsp) == WalkRun(T, WalkStart(rip, rsp)).stack

----------------------------------------------------------------------------
\* Rule tables and queries of the binary_search specification
SearchAddrs == (0 .. MaxAddr) \cup {U64_MAX}
SearchQueries == (0 .. MaxAddr + 1) \cup {U64_MAX}
TargetPids == {7}

SortedTables(n, addrs) ==
    {f \in [0 .. n - 1 -> addrs] : \A i \in 0 .. n - 2 : f[i] <= f[i + 1]}

NoSearch == [rip |-> 0, s |-> [left |-> 0, right |-> 0, i |-> 0, n |-> 0, brk |-> FALSE],
             ret |-> None]
NoWalk == [rip |-> 0, rsp |-> 0, d |-> 0, stack |-> <<>>, why |-> "idle",
           rip0 |-> 0, rsp0 |-> 0, probes |-> 0, lookups |-> 0]
NoEx == [ins |-> [op |-> 0, offset |-> 0], rip |-> 0, rsp |-> 0, cfa |-> 0,
         called |-> FALSE, ret |-> None]

Cpus == 1 .. NumCpus

NoEvent == [cpu |-> 0, pid |-> 0]

AggIdle ==
    /\ USER_STACK = <<>>
    /\ others = 0
    /\ pc = [p \in Cpus |-> "idle"]
    /\ event = NoEvent
    /\ stack = [p \in Cpus |-> <<>>]
    /\ count = [p \in Cpus |-> 0]
    /\ calls = <<>>
    /\ log = <<>>
    /\ overlap = FALSE

\* a call binary_search(rip) on a sorted table of N entries, CONFIG[0] = N,
\* or on nothing loaded at all (CONFIG.get(0) is None)
InitSearch ==
    /\ \E n \in 0 .. MaxN :
         /\ PC \in SortedTables(n, SearchAddrs)
         /\ \/ \E pid \in TargetPids :
                 CONFIG = [k \in 0 .. 1 |-> IF k = 0 THEN n ELSE pid]
            \/ n = 0 /\ CONFIG = <<>>
    /\ RIP = <<>>
    /\ RSP = <<>>
    /\ mem = <<>>
    /\ \E q \in SearchQueries : search = [rip |-> q, s |-> BSInit(Maps), ret |-> None]
    /\ walk = NoWalk
    /\ ex = NoEx
    /\ AggIdle

\* one iteration of the loop (the break included)
SearchProbe ==
    /\ search.ret = None
    /\ ~BSDone(search.s)
    /\ search' = [search EXCEPT !.s = BSStep(Maps, search.s, search.rip)]
    /\ UNCHANGED <<tables, aggVars, walk, ex>>

\* the loop is over: return i
SearchReturn ==
    /\ search.ret = None
    /\ BSDone(search.s)
    /\ search' = [search EXCEPT !.ret = Some(search.s.i)]
    /\ UNCHANGED <<tables, aggVars, walk, ex>>

NextSearch == SearchProbe \/ SearchReturn

SpecSearch == InitSearch /\ [][NextSearch]_vars

----------------------------------------------------------------------------
\* The index the search is specified to return: the greatest i with
\* PC[i] <= rip, and 0 when no entry qualifies
GreatestLE(rip) ==
    LET le == {i \in DOMAIN PC : PC[i] <= rip}
    IN IF le = {} THEN 0 ELSE CHOOSE i \in le : \A j \in le : j <= i

SearchReturned == search.ret # None
Populated == ArrayGet(CONFIG, 0) # None /\ CONFIG[0] >= 1
EmptyTable == ArrayGet(CONFIG, 0) \in {None, Some(0)}

\* C1: on a sorted table of N >= 1 entries binary_search(rip) returns the
\* greatest index i with PC[i] <= rip (0 for a query below PC[0]).
C1_SearchExact ==
    (SearchReturned /\ Populated) => search.ret = Some(GreatestLE(search.rip))

\* C8: on an empty table (CONFIG[0] = 0, or no count) binary_search returns 0
\* for every query, and the right bound does not underflow.
C8_EmptyReturnsZero ==
    (SearchReturned /\ EmptyTable) =>
        /\ search.ret = Some(0)
        /\ BSInit(Maps).right = 0

\* C17: with a populated count N >= 1 the bounds of binary_search satisfy
\* 0 <= left <= right <= N - 1 before and after every iteration, the index i
\* is the last midpoint (the bound it was just assigned to), it addresses a
\* populated entry, 0 <= i <= N - 1, and it is the value returned, also
\* when the 24 iterations are used up with left < right.
C17_SearchInBounds ==
    Populated =>
        /\ 0 <= search.s.left
        /\ search.s.left <= search.s.right
        /\ search.s.right <= CONFIG[0] - 1
        /\ 0 <= search.s.i
        /\ search.s.i <= CONFIG[0] - 1
        /\ search.s.i \in DOMAIN PC
        /\ search.s.n >= 1 => search.s.i \in {search.s.left, search.s.right}
        /\ search.s.n <= MAX_BIN_SEARCH_DEPTH
        /\ SearchReturned => search.ret = Some(search.s.i)

\* C17 witness: a search over the largest table returned after 24 iterations
\* without having converged
C17_Witness ==
    /\ SearchReturned
    /\ ArrayGet(CONFIG, 0) = Some(MaxN)
    /\ search.s.n = MAX_BIN_SEARCH_DEPTH
    /\ ~search.s.brk
    /\ search.s.left < search.s.right
    /\ search.ret = Some(search.s.left)

----------------------------------------------------------------------------
\* Inputs of the execute_instruction specification
I64_MIN == 0 - U64Mod \div 2
I64_MAX == U64Mod \div 2 - 1
ExecOps == (0 .. 4) \cup {U64_MAX}
ExecOffsets == {I64_MIN, -1, 0, 1, I64_MAX}
ExecWords == {0, 1, I64_MAX, I64_MAX + 1, U64_MAX}
ExecMems == {<<>>, [a \in {0, 1, U64_MAX} |-> WrapU64(a + 5)]}

InitExec ==
    /\ CONFIG = <<>>
    /\ PC = <<>>
    /\ RIP = <<>>
    /\ RSP = <<>>
    /\ mem \in ExecMems
    /\ search = NoSearch
    /\ walk = NoWalk
    /\ \E op \in ExecOps, off \in ExecOffsets, rip \in ExecWords,
          rsp \in ExecWords, cfa \in ExecWords :
         ex = [ins |-> [op |-> op, offset |-> off], rip |-> rip, rsp |-> rsp,
               cfa |-> cfa, called |-> FALSE, ret |-> None]
    /\ AggIdle

ExecCall ==
    /\ ~ex.called
    /\ ex' = [ex EXCEPT !.called = TRUE,
                        !.ret = execute_instruction(Maps, ex.ins, ex.rip, ex.rsp, ex.cfa)]
    /\ UNCHANGED <<tables, aggVars, search, walk>>

NextExec == ExecCall

SpecExec == InitExec /\ [][NextExec]_vars

\* the fallible read primitive: read_u64(address)
read_u64(address) == IF address \in DOMAIN mem THEN Some(mem[address]) ELSE None

\* the interpreter as specified, on mathematical integers reduced mod 2^64
RefEvaluate(ins, rip, rsp, cfa) ==
    IF ins.op = 1 THEN read_u64((cfa + ins.offset) % U64Mod)
    ELSE IF ins.op = 2 THEN Some((rip + ins.offset) % U64Mod)
    ELSE IF ins.op = 3 THEN Some((rsp + ins.offset) % U64Mod)
    ELSE None

\* C10: execute_instruction returns what the three opcodes are specified to
\* return, with two's-complement wraparound, and None for any other opcode.
C10_ExecMatchesReference ==
    ex.called => ex.ret = RefEvaluate(ex.ins, ex.rip, ex.rsp, ex.cfa)

\* C10 witness: an AddToIp whose signed sum wraps has been evaluated
C10_Witness ==
    /\ ex.called
    /\ ex.ins.op = 2
    /\ ex.rip + ex.ins.offset >= U64Mod
    /\ ex.ret = Some(ex.rip + ex.ins.offset - U64Mod)

----------------------------------------------------------------------------
\* Rule tables, memories and samples of the backtrace specification
Ins(op, offset) == [op |-> op, offset |-> offset]
RSPRules == {Ins(3, 1), Ins(1, 0)}
RIPRules == {Ins(2, -1), Ins(2, 0), Ins(1, 0), Ins(7, 0)}
RIPExceptions == RIPRules \cup {Ins(3, 0)}
WalkAddrs == 1 .. MaxAddr
SampleRsps == {0, 1}
\* user memory: the words at 0 .. 3 are mapped, every other address is not
WalkMems == {[a \in 0 .. 3 |-> IF a = 0 THEN 0 ELSE (3 - a)]}

StrictTables(n, addrs) ==
    {f \in [0 .. n - 1 -> addrs] : \A i \in 0 .. n - 2 : f[i] < f[i + 1]}

\* the tables a loader left: n sorted addresses, a frame-base rule and a
\* return-address rule common to all entries but entry x.  Entry x differs
\* in one respect: its return-address rule is another one, or one of its two
\* rules has not been loaded ("RSP", "RIP"), or its frame-base rule has an
\* opcode the probe does not know ("RSP_op") or reads an unmapped address
\* ("RSP_mem")
RuleGaps == {"none", "RSP", "RIP", "RSP_op", "RSP_mem"}

\* what entry x can be when the common return-address rule is b: the pairs
\* of its return-address rule and its gap
EntryVariants(b) ==
    {<<e, "none">> : e \in RIPExceptions} \cup {<<b, gap>> : gap \in RuleGaps}

WalkTables(n) ==
    UNION {{[CONFIG |-> [k \in 0 .. 1 |-> IF k = 0 THEN n ELSE pid],
             PC |-> a,
             RSP |-> [i \in (0 .. n - 1) \ (IF v[2] = "RSP" THEN {x} ELSE {}) |->
                         IF i = x /\ v[2] = "RSP_op" THEN Ins(0, 0)
                         ELSE IF i = x /\ v[2] = "RSP_mem" THEN Ins(1, MaxAddr)
                         ELSE r],
             RIP |-> [i \in (0 .. n - 1) \ (IF v[2] = "RIP" THEN {x} ELSE {}) |->
                         IF i = x THEN v[1] ELSE b],
             mem |-> m] :
               pid \in TargetPids, a \in StrictTables(n, WalkAddrs), r \in RSPRules,
               x \in 0 .. (IF n = 0 THEN 0 ELSE n - 1), m \in WalkMems,
               v \in EntryVariants(b)} : b \in RIPRules}

InitWalk ==
    /\ \E n \in 0 .. MaxN : \E T \in WalkTables(n) :
         /\ CONFIG = T.CONFIG
         /\ PC = T.PC
         /\ RSP = T.RSP
         /\ RIP = T.RIP
         /\ mem = T.mem
    /\ \E rip \in 0 .. MaxAddr, rsp \in SampleRsps : walk = WalkStart(rip, rsp)
    /\ search = NoSearch
    /\ ex = NoEx
    /\ AggIdle

\* one iteration of the for loop of backtrace
WalkIterate ==
    /\ ~WalkDone(walk)
    /\ walk' = WalkStep(Maps, walk)
    /\ UNCHANGED <<tables, aggVars, search, ex>>

NextWalk == WalkIterate

SpecWalk == InitWalk /\ [][NextWalk]_vars

----------------------------------------------------------------------------
\* The rules of entry i applied as the walk is specified to apply them
Cfa(i, rip, rsp) == execute_instruction(Maps, RSP[i], rip, rsp, 0)
Ret(i, rip, rsp) ==
    unwrap_or_default(execute_instruction(Maps, RIP[i], rip, rsp, Cfa(i, rip, rsp)[1]))

\* a 3-entry table whose levels chain PC[2] -> PC[1] -> PC[0] -> 0 for the
\* sample (PC[2], rsp0), every frame-base rule succeeding
ThreeLevelChain ==
    /\ ArrayGet(CONFIG, 0) = Some(3)
    /\ DOMAIN RSP = 0 .. 2
    /\ DOMAIN RIP = 0 .. 2
    /\ walk.rip0 = PC[2]
    /\ LET cfa2 == Cfa(2, PC[2], walk.rsp0)
           cfa1 == Cfa(1, PC[1], cfa2[1])
           cfa0 == Cfa(0, PC[0], cfa1[1])
       IN /\ cfa2 # None
          /\ Ret(2, PC[2], walk.rsp0) = PC[1]
          /\ cfa1 # None
          /\ Ret(1, PC[1], cfa2[1]) = PC[0]
          /\ cfa0 # None
          /\ Ret(0, PC[0], cfa1[1]) = 0

\* C3: on a 3-level chain the walk from rip = addr2 returns
\* [addr2, addr1, addr0, 0, 0, ...].
C3_ThreeLevelTrace ==
    (WalkDone(walk) /\ ThreeLevelChain) =>
        walk.stack = [k \in 1 .. MAX_STACK_DEPTH |-> IF k <= 3 THEN PC[3 - k] ELSE 0]

\* the bounds of a walk, and the terminal condition it ended in
C4_WalkInv ==
    /\ walk.d <= MAX_STACK_DEPTH
    /\ walk.lookups <= MAX_STACK_DEPTH
    /\ walk.probes <= MAX_BIN_SEARCH_DEPTH
    /\ Len(walk.stack) = MAX_STACK_DEPTH
    /\ walk.d = MAX_STACK_DEPTH => WalkDone(walk)
    /\ WalkDone(walk) =>
         /\ walk.why \in {"ip0", "no_rsp_rule", "cfa_failed", "no_rip_rule", "depth"}
         /\ walk.why = "ip0" => walk.rip = 0
         /\ walk.why = "depth" <=> walk.d = MAX_STACK_DEPTH

\* each iteration either ends the walk or moves on to the next depth
C4_WalkProgress == walk'.d = walk.d + 1 \/ WalkDone(walk')

\* C4: every walk ends: at most 48 unwind steps, at most 24 probes per search,
\* a trace of exactly 48 slots, and one of the terminal conditions at the end.
C4_WalkTerminates == []C4_WalkInv /\ [][C4_WalkProgress]_vars

\* C4 witness: a cycle of return addresses, cut at depth 48 with no slot zero
C4_Witness ==
    /\ walk.why = "depth"
    /\ walk.rip # 0
    /\ \A k \in Slots : Slot(walk.stack, k) # 0

\* C9: a walk from rip = 0 stops at depth 0 with the trace all zero and
\* without a lookup in the rule table.
C9_ZeroIpWalk ==
    (WalkDone(walk) /\ walk.rip0 = 0) =>
        /\ walk.stack = ZeroStack
        /\ walk.d = 0
        /\ walk.why = "ip0"
        /\ walk.lookups = 0

\* C9 witness: rip = 0 sampled with a populated table and a non-zero rsp
C9_Witness ==
    /\ WalkDone(walk)
    /\ walk.rip0 = 0
    /\ walk.rsp0 # 0
    /\ Populated
    /\ walk.stack = ZeroStack

\* an opcode execute_instruction has no arm for
Unrecognized(ins) == ins.op \notin {1, 2, 3}
\* the rule array without its entry x
Without(arr, x) == [i \in DOMAIN arr \ {x} |-> arr[i]]
\* the index the walk looked up at depth k of a finished or running walk
IndexAt(k) == binary_search(Maps, Slot(walk.stack, k))

\* C11: a walk over a table in which a frame-base rule or a return-address
\* rule has an unrecognized opcode returns the same 48-slot trace as the walk
\* of the same sample over the table without that rule (a lookup miss),
\* at whatever depth the rule comes into play.
C11_UnrecognizedAsMiss ==
    WalkDone(walk) =>
        /\ \A x \in DOMAIN RSP :
              Unrecognized(RSP[x]) =>
                  walk.stack = backtrace([Maps EXCEPT !.RSP = Without(RSP, x)],
                                         walk.rip0, walk.rsp0)
        /\ \A x \in DOMAIN RIP :
              Unrecognized(RIP[x]) =>
                  walk.stack = backtrace([Maps EXCEPT !.RIP = Without(RIP, x)],
                                         walk.rip0, walk.rsp0)

\* C11 witness: the return-address rule looked up at depth d - 1 >= 1 had an
\* unrecognized opcode and the walk ended at depth d on the zero it left
C11_Witness ==
    /\ walk.why = "ip0"
    /\ walk.d >= 2
    /\ ArrayGet(RIP, IndexAt(walk.d - 1)) # None
    /\ Unrecognized(RIP[IndexAt(walk.d - 1)])
    /\ ArrayGet(RSP, IndexAt(walk.d - 1)) # None
    /\ ~Unrecognized(RSP[IndexAt(walk.d - 1)])

\* the frame-base rule looked up at depth d >= 1 had an unrecognized opcode
C11_FrameBaseCase ==
    /\ walk.why = "cfa_failed"
    /\ walk.d >= 1
    /\ Unrecognized(RSP[IndexAt(walk.d)])

\* the iteration about to run from w evaluates a return-address rule, and
\* the evaluation fails
ReturnEvalFails(w) ==
    /\ ~WalkDone(w)
    /\ w.rip # 0
    /\ LET i == binary_search(Maps, w.rip)
       IN /\ ArrayGet(RSP, i) # None
          /\ ArrayGet(RIP, i) # None
          /\ LET cfa == execute_instruction(Maps, RSP[i], w.rip, w.rsp, 0)
             IN /\ cfa # None
                /\ execute_instruction(Maps, RIP[i], w.rip, w.rsp, cfa[1]) = None

\* the tables with the return-address rule for w.rip replaced by the
\* AddToIp rule that evaluates to 0 at w.rip
LegitZero(w) ==
    [Maps EXCEPT !.RIP[binary_search(Maps, w.rip)] = Ins(2, 0 - AsI64(w.rip))]

\* the iteration from w, at a depth below 47, ends in: rip = 0, one more
\* iteration pending, which stops on the zero and leaves the trace as it is
StopsAtNextStep(w, w1) ==
    /\ w1.rip = 0
    /\ w1.d = w.d + 1
    /\ w1.d < MAX_STACK_DEPTH =>
         /\ w1.why = "run"
         /\ WalkStep(Maps, w1).why = "ip0"
         /\ WalkStep(Maps, w1).d = w.d + 1
         /\ WalkStep(Maps, w1).stack = w1.stack
    /\ backtrace(Maps, w.rip0, w.rsp0) = w1.stack

\* C12: an iteration whose return-address evaluation fails sets rip to 0, the
\* next iteration stops on it, and the iteration and the trace are the ones
\* of the walk whose return-address rule evaluates to 0.
C12_FailedReturnIsZero ==
    [][ReturnEvalFails(walk) =>
          /\ StopsAtNextStep(walk, walk')
          /\ walk' = WalkStep(LegitZero(walk), walk)
          /\ WalkRun(LegitZero(walk), walk').stack = walk'.stack]_vars

\* C12 witness: the DerefAdd return-address rule looked up at depth
\* d - 1 >= 1 read an unmapped address and the walk ended at depth d
C12_Witness ==
    /\ walk.why = "ip0"
    /\ walk.d >= 2
    /\ ArrayGet(RIP, IndexAt(walk.d - 1)) # None
    /\ RIP[IndexAt(walk.d - 1)].op = 1
    /\ AsU64(WrapI64(AsI64(walk.rsp) + RIP[IndexAt(walk.d - 1)].offset)) \notin DOMAIN mem
    /\ \A k \in Slots : Slot(walk.stack, k) = 0 <=> k >= walk.d

\* C14: the trace is zero-padded: slot 0 holds the rip of the sample, a slot
\* that holds 0 is followed by zeros only (no slot that holds 0 has a non-zero
\* slot right behind it, which is the same by induction on the distance), and
\* the slots behind the depth the walk stopped at are 0; in every state of
\* the walk, so at its end.
C14_ZeroPadded ==
    /\ (walk.d > 0 \/ WalkDone(walk)) => Slot(walk.stack, 0) = walk.rip0
    /\ \A k \in Slots \ {0} :
          Slot(walk.stack, k - 1) = 0 => Slot(walk.stack, k) = 0
    /\ \A k \in Slots : k > walk.d => Slot(walk.stack, k) = 0

\* C14 witness: a walk over a populated table that ended on a zero return
\* address at depth 3: three instruction pointers, then zeros
C14_Witness ==
    /\ walk.why = "ip0"
    /\ walk.d = 3
    /\ Populated
    /\ \A k \in Slots : Slot(walk.stack, k) # 0 <=> k < 3

\* The walk as section 4.3 of the specification words it, steps 1 to 8 for d
\* in 0 .. MAX_DEPTH - 1, with binary_search as the range locator and the
\* interpreter as specified (RefEvaluate)
\* steps 1 to 8 for one d; st is (d, ip, sp, trace) and whether step 2, 4, 5
\* or 6 has stopped the walk
RefStep(st) ==
    LET recorded == [st EXCEPT !.trace[st.d + 1] = st.ip]
        index == binary_search(Maps, st.ip)
        cfa == RefEvaluate(RSP[index], st.ip, st.sp, 0)
        new_ip == RefEvaluate(RIP[index], st.ip, st.sp, cfa[1])
    IN IF st.ip = 0 THEN [recorded EXCEPT !.stopped = TRUE]
       ELSE IF index \notin DOMAIN RSP THEN [recorded EXCEPT !.stopped = TRUE]
       ELSE IF cfa = None THEN [recorded EXCEPT !.stopped = TRUE]
       ELSE IF index \notin DOMAIN RIP THEN [recorded EXCEPT !.stopped = TRUE]
       ELSE [recorded EXCEPT !.sp = cfa[1],
                             !.ip = IF new_ip = None THEN 0 ELSE new_ip[1],
                             !.d = st.d + 1]

RECURSIVE RefWalkFrom(_)
RefWalkFrom(st) ==
    IF st.stopped \/ st.d = MAX_STACK_DEPTH THEN st.trace
    ELSE RefWalkFrom(RefStep(st))

RefWalk(initial_ip, initial_sp) ==
    RefWalkFrom([d |-> 0, ip |-> initial_ip, sp |-> initial_sp,
                 trace |-> ZeroStack, stopped |-> FALSE])

\* the state of the reference algorithm that a state of backtrace stands for
RefState(w) ==
    [d |-> w.d, ip |-> w.rip, sp |-> w.rsp, trace |-> w.stack,
     stopped |-> WalkDone(w) /\ w.why # "depth"]

\* the trace of a finished walk is the trace of the reference algorithm
C16_TraceInv == WalkDone(walk) => walk.stack = RefWalk(walk.rip0, walk.rsp0)

\* an iteration of backtrace is steps 1 to 8 of the reference algorithm
C16_StepMatches == RefState(walk') = RefStep(RefState(walk))

\* C16: each iteration of backtrace has the data flow of steps 1 to 8 (index
\* from binary_search(ip), cfa from the frame-base rule on (ip, sp, 0), the
\* next ip from the return-address rule on the pre-step ip and sp and the new
\* cfa, then sp = cfa), and the trace returned is the trace of the reference
\* algorithm, for every sample, table and memory.
C16_WalkMatchesReference == []C16_TraceInv /\ [][C16_StepMatches]_vars

\* C16 witness: a finished walk of depth >= 2 that took a step in which the
\* frame base was rsp + 1 and the return address was read from the pre-step
\* rsp (AddToSp rules for both), and a step with another return-address rule
C16_Witness ==
    /\ WalkDone(walk)
    /\ walk.d >= 2
    /\ walk.stack = RefWalk(walk.rip0, walk.rsp0)
    /\ \E k \in 0 .. walk.d - 1 :
          /\ ArrayGet(RSP, IndexAt(k)) = Some(Ins(3, 1))
          /\ ArrayGet(RIP, IndexAt(k)) = Some(Ins(3, 0))
    /\ \E k \in 0 .. walk.d - 1 :
          /\ ArrayGet(RIP, IndexAt(k)) # None
          /\ RIP[IndexAt(k)].op # 3

----------------------------------------------------------------------------
\* The probe on NumCpus execution contexts
ChainTable(n, pid) ==
    [CONFIG |-> [k \in 0 .. 1 |-> IF k = 0 THEN n ELSE pid],
     PC |-> [i \in 0 .. n - 1 |-> i + 1],
     RSP |-> [i \in 0 .. n - 1 |-> Ins(3, 1)],
     RIP |-> [i \in 0 .. n - 1 |-> Ins(2, -1)],
     mem |-> <<>>]

\* three entries at 0, 1, 2; the frame-base rule of entry 0 reads memory, and
\* none is mapped
TruncTable(pid) ==
    [CONFIG |-> [k \in 0 .. 1 |-> IF k = 0 THEN 3 ELSE pid],
     PC |-> [i \in 0 .. 2 |-> i],
     RSP |-> [i \in 0 .. 2 |-> IF i = 0 THEN Ins(1, 0) ELSE Ins(3, 1)],
     RIP |-> [i \in 0 .. 2 |-> Ins(2, -1)],
     mem |-> <<>>]

AggTables ==
    {ChainTable(n, pid) : n \in {0, MaxN}, pid \in TargetPids}
        \cup {TruncTable(pid) : pid \in TargetPids}
SampleRips == {0, 2}
SamplePids == TargetPids \cup {8}
HighCount == U32_MAX - 1
OtherEntries == {0, USER_STACK_MAX_ENTRIES - 1}

\* the traces the samples of the model unwind to
SampleTraces(T) == {backtrace(T, rip, 0) : rip \in SampleRips}

Init ==
    /\ \E T \in AggTables :
         /\ CONFIG = T.CONFIG
         /\ PC = T.PC
         /\ RSP = T.RSP
         /\ RIP = T.RIP
         /\ mem = T.mem
    /\ others \in OtherEntries
    \* an empty table, or one trace counted HighCount times before
    /\ \/ USER_STACK = <<>>
       \/ \E t \in SampleTraces(Maps) : USER_STACK = [k \in {t} |-> HighCount]
    /\ calls = USER_STACK
    /\ log = <<>>
    /\ overlap = FALSE
    /\ pc = [p \in Cpus |-> "idle"]
    /\ event = NoEvent
    /\ stack = [p \in Cpus |-> ZeroStack]
    /\ count = [p \in Cpus |-> 0]
    /\ search = NoSearch
    /\ walk = NoWalk
    /\ ex = NoEx

InFlight == {q \in Cpus : pc[q] # "idle"}

\* the mutant has no pid filter: every sample is unwound and recorded
increment_stack_counter_any_pid(p, r) ==
    /\ pc[p] = "idle"
    /\ event' = [cpu |-> p, pid |-> r.pid]
    /\ Len(log) + Cardinality(InFlight) < MaxSamples
    /\ stack' = [stack EXCEPT ![p] = backtrace(Maps, r.rip, r.rsp)]
    /\ pc' = [pc EXCEPT ![p] = "get"]
    /\ overlap' = (overlap \/ InFlight # {})
    /\ UNCHANGED <<tables, USER_STACK, others, count, calls, log, search, walk, ex>>

\* increment_stack_counter up to the call of USER_STACK.get: the pid filter,
\* the zeroed buffer and the walk
increment_stack_counter(p, r) ==
    /\ pc[p] = "idle"
    /\ event' = [cpu |-> p, pid |-> r.pid]
    /\ IF ArrayGet(CONFIG, 1) # None /\ r.pid = ArrayGet(CONFIG, 1)[1]
       THEN /\ Len(log) + Cardinality(InFlight) < MaxSamples
            /\ stack' = [stack EXCEPT ![p] = backtrace(Maps, r.rip, r.rsp)]
            /\ pc' = [pc EXCEPT ![p] = "get"]
            /\ overlap' = (overlap \/ InFlight # {})
       ELSE UNCHANGED <<stack, pc, overlap>>
    /\ UNCHANGED <<tables, USER_STACK, others, count, calls, log, search, walk, ex>>

Samples == [rip : SampleRips, rsp : {0}, pid : SamplePids]

\* the two entry points of the probe
perf_event(p) == \E r \in Samples : increment_stack_counter(p, r)

kprobe(p) == \E r \in Samples : increment_stack_counter(p, r)

\* let mut count = USER_STACK.get(&stack).unwrap_or_default();
Get(p) ==
    /\ pc[p] = "get"
    /\ count' = [count EXCEPT ![p] = unwrap_or_default(HashMapGet(USER_STACK, stack[p]))]
    /\ pc' = [pc EXCEPT ![p] = "inc"]
    /\ UNCHANGED <<tables, USER_STACK, others, event, stack, calls, log, overlap,
                   search, walk, ex>>

\* count += 1;
Inc(p) ==
    /\ pc[p] = "inc"
    /\ count' = [count EXCEPT ![p] = WrapU32(count[p] + 1)]
    /\ pc' = [pc EXCEPT ![p] = "insert"]
    /\ UNCHANGED <<tables, USER_STACK, others, event, stack, calls, log, overlap,
                   search, walk, ex>>

Calls(t) == IF t \in DOMAIN calls THEN calls[t] ELSE 0

\* USER_STACK.insert(&stack, &count); and the return (the locals die)
Insert(p) ==
    /\ pc[p] = "insert"
    /\ USER_STACK' = HashMapInsert(USER_STACK, others, stack[p], count[p])
    /\ calls' = [t \in DOMAIN calls \cup {stack[p]} |->
                    IF t = stack[p] THEN Calls(t) + 1 ELSE calls[t]]
    /\ log' = Append(log, stack[p])
    /\ pc' = [pc EXCEPT ![p] = "idle"]
    /\ stack' = [stack EXCEPT ![p] = ZeroStack]
    /\ count' = [count EXCEPT ![p] = 0]
    /\ UNCHANGED <<tables, others, event, overlap, search, walk, ex>>

Next ==
    \E p \in Cpus : perf_event(p) \/ kprobe(p) \/ Get(p) \/ Inc(p) \/ Insert(p)

Spec == Init /\ [][Next]_vars

----------------------------------------------------------------------------
AllIdle == \A p \in Cpus : pc[p] = "idle"
\* no two executions of the probe have been in flight together so far
Serialized == ~overlap
\* the behaviour started from an empty USER_STACK
InitiallyEmpty == others = 0 /\ \A t \in DOMAIN calls : calls[t] <= Len(log)

\* C2: under any interleaving of executions that record the same trace, the
\* count stored for a key never decreases from one state to the next (the
\* step from the maximum of the counter is left to C7).
C2_CountNeverDecreases ==
    [][\A t \in DOMAIN USER_STACK :
          USER_STACK[t] < U32_MAX =>
              t \in DOMAIN USER_STACK' /\ USER_STACK'[t] >= USER_STACK[t]]_vars

\* C5: in a serialized execution, after every record call the count stored
\* for the recorded trace is the number of record calls made for that trace.
C5_NoCountDropped ==
    (Serialized /\ AllIdle /\ Len(log) > 0) =>
        LET t == log[Len(log)]
        IN HashMapGet(USER_STACK, t) = Some(Calls(t))

\* C6: recording t1 and then t2 on an empty table leaves one entry with count
\* 2 when t1 = t2, and two entries with count 1 when they differ in a slot.
C6_SameTraceSameKey ==
    (InitiallyEmpty /\ Serialized /\ AllIdle /\ Len(log) = 2) =>
        IF log[1] = log[2]
        THEN USER_STACK = [k \in {log[1]} |-> 2]
        ELSE USER_STACK = [k \in {log[1], log[2]} |-> 1]

\* C6 witness: the same non-empty trace recorded twice, one entry, count 2
C6_Witness ==
    /\ InitiallyEmpty /\ Serialized /\ AllIdle
    /\ Len(log) = 2
    /\ log[1] = log[2]
    /\ Slot(log[1], 0) # 0
    /\ Slot(log[1], 1) # 0
    /\ DOMAIN USER_STACK = {log[1]}
    /\ USER_STACK[log[1]] = 2

\* C7: a count at the maximum of the counter type stays at the maximum when
\* its trace is recorded again (it saturates, it does not wrap).
C7_CountSaturates ==
    [][Serialized' =>
          \A t \in DOMAIN USER_STACK :
              USER_STACK[t] = U32_MAX =>
                  t \in DOMAIN USER_STACK' /\ USER_STACK'[t] = U32_MAX]_vars

\* the walks of the samples of the model over the tables of the state
SampleWalks == {WalkRun(Maps, WalkStart(r.rip, r.rsp)) : r \in Samples}
\* the walk ended in the frame-base step: no rule at the index, or no value
FrameBaseStop(w) == w.why \in {"no_rsp_rule", "cfa_failed"}

\* C13: a walk that a lookup miss or a failed DerefAdd read ends in the
\* frame-base step of depth d returns the instruction pointers of depths
\* 0 .. d in slots 0 .. d and zeros behind them, and the aggregator counts
\* that trace as it counts any other: after a serialized record on a table
\* that was empty, its count is the number of record calls made for it.
C13_TruncatedStillRecorded ==
    (InitiallyEmpty /\ Serialized /\ AllIdle /\ Len(log) > 0) =>
        \A w \in SampleWalks :
            (FrameBaseStop(w) /\ w.rip0 = Slot(log[Len(log)], 0)) =>
                /\ log[Len(log)] = w.stack
                /\ Slot(w.stack, w.d) = w.rip
                /\ \A k \in Slots : Slot(w.stack, k) # 0 <=> k <= w.d
                /\ Calls(w.stack) >= 1
                /\ HashMapGet(USER_STACK, w.stack) = Some(Calls(w.stack))

\* C13 witness: a trace cut at depth 1 by a failed DerefAdd read of the
\* frame-base rule, recorded twice, counted twice
C13_Witness ==
    /\ InitiallyEmpty /\ Serialized /\ AllIdle
    /\ Len(log) = 2
    /\ log[1] = log[2]
    /\ \E w \in SampleWalks :
          /\ w.why = "cfa_failed"
          /\ w.d = 1
          /\ w.stack = log[1]
    /\ HashMapGet(USER_STACK, log[1]) = Some(2)

\* a trace cut at depth 0 by a lookup miss of the frame-base rule, recorded
C13_LookupMissCase ==
    /\ InitiallyEmpty /\ Serialized /\ AllIdle
    /\ Len(log) = 1
    /\ \E w \in SampleWalks :
          /\ w.why = "no_rsp_rule"
          /\ w.rip0 # 0
          /\ w.stack = log[1]
    /\ HashMapGet(USER_STACK, log[1]) = Some(1)

\* C15: no step of the probe changes CONFIG, PC, RIP or RSP, and the only
\* change a step makes to USER_STACK is to the entry of the trace that the
\* execution context taking the step has unwound and is inserting.
C15_TablesReadOnly ==
    [][/\ CONFIG' = CONFIG
       /\ PC' = PC
       /\ RIP' = RIP
       /\ RSP' = RSP
       /\ others' = others
       /\ \A t \in DOMAIN USER_STACK \cup DOMAIN USER_STACK' :
             HashMapGet(USER_STACK', t) # HashMapGet(USER_STACK, t) =>
                 \E p \in Cpus :
                     /\ pc[p] = "insert"
                     /\ pc'[p] = "idle"
                     /\ stack[p] = t]_vars

\* C15 witness: two samples with different traces have been recorded over a
\* populated rule table and USER_STACK holds an entry for each
C15_Witness ==
    /\ AllIdle
    /\ Populated
    /\ Len(log) = 2
    /\ log[1] # log[2]
    /\ DOMAIN USER_STACK = {log[1], log[2]}
    /\ DOMAIN RSP # {}
    /\ DOMAIN RIP # {}

\* the number of completed record calls of this behaviour for trace t
Occurrences(t) == Cardinality({j \in 1 .. Len(log) : log[j] = t})
\* t had no entry when the behaviour started
InitiallyAbsent(t) == Calls(t) = Occurrences(t)
Recorded == {log[j] : j \in 1 .. Len(log)}

\* C18: when the k >= 1 record operations on an initially absent trace have
\* all completed, under any interleaving, the trace has an entry and its
\* count c satisfies 1 <= c <= k, with c = k when the operations were
\* serialized.
C18_ConcurrentCountBounds ==
    AllIdle =>
        \A t \in Recorded :
            InitiallyAbsent(t) =>
                /\ HashMapGet(USER_STACK, t) # None
                /\ 1 <= USER_STACK[t]
                /\ USER_STACK[t] <= Occurrences(t)
                /\ Serialized => USER_STACK[t] = Occurrences(t)

\* the map had a free slot for every new key of this behaviour
HadRoom == others + Cardinality(DOMAIN calls) <= USER_STACK_MAX_ENTRIES

\* the bounds of C18 on a map that had room for the key
C18_BoundsWithRoom == HadRoom => C18_ConcurrentCountBounds

\* a lost increment: two overlapping record operations on an absent trace
\* have completed and its count is 1
C18_LostIncrement ==
    /\ AllIdle
    /\ HadRoom
    /\ \E t \in Recorded :
          /\ InitiallyAbsent(t)
          /\ Occurrences(t) = 2
          /\ HashMapGet(USER_STACK, t) = Some(1)

\* context p moves from position a to position b in this step
Moves(p, a, b) == pc[p] = a /\ pc'[p] = b

\* C19: a sample whose pid is not CONFIG[1] changes nothing but the record of
\* the event itself (no walk, USER_STACK as it was); an execution starts only
\* on a sample of the target pid, makes one walk (the buffer is written once,
\* with the trace of a sample, before the get), one get (the count is read
\* once) and one insert (the only step that changes USER_STACK), in this
\* order, and is over.
C19_Steps ==
    [][/\ (event' # event /\ Some(event'.pid) # ArrayGet(CONFIG, 1)) =>
             UNCHANGED <<USER_STACK, others, pc, stack, count, calls, log>>
       /\ USER_STACK' # USER_STACK => \E p \in Cpus : Moves(p, "insert", "idle")
       /\ \A p \in Cpus :
             /\ pc'[p] # pc[p] =>
                   \/ Moves(p, "idle", "get")
                   \/ Moves(p, "get", "inc")
                   \/ Moves(p, "inc", "insert")
                   \/ Moves(p, "insert", "idle")
             /\ Moves(p, "idle", "get") => event' = [cpu |-> p, pid |-> CONFIG[1]]
             /\ Moves(p, "get", "inc") =>
                   /\ count'[p] = unwrap_or_default(HashMapGet(USER_STACK, stack[p]))
                   /\ stack'[p] = stack[p]
             /\ Moves(p, "inc", "insert") =>
                   /\ count'[p] = WrapU32(count[p] + 1)
                   /\ stack'[p] = stack[p]
             /\ Moves(p, "insert", "idle") =>
                   /\ log' = Append(log, stack[p])
                   /\ \A t \in DOMAIN USER_STACK' :
                         USER_STACK'[t] = IF t = stack[p] THEN count[p] ELSE USER_STACK[t]
             /\ pc'[p] = pc[p] => (stack'[p] = stack[p] /\ count'[p] = count[p])]_vars

\* the buffer of an execution in flight holds the trace of one walk
C19_OneWalk ==
    \A p \in Cpus : pc[p] # "idle" => \E r \in SampleRips : stack[p] = backtrace(Maps, r, 0)

C19_PidFilter == []C19_OneWalk /\ C19_Steps

\* C19 witness: one sample of the target pid has been recorded, and the last
\* sample event, on the other context, had another pid and left no trace
C19_Witness ==
    /\ AllIdle
    /\ Len(log) = 1
    /\ Slot(log[1], 0) # 0
    /\ USER_STACK = [t \in {log[1]} |-> 1]
    /\ event.cpu # 0
    /\ Some(event.pid) # ArrayGet(CONFIG, 1)

====
